---- MODULE Spec2Model ----
(***************************************************************************)
(* A model of doc_processor.py: the MCP tool get_processed_doc, which      *)
(* stages a local file in an S3 source bucket, provisions connectors and a *)
(* workflow on the Unstructured platform, polls the job, downloads the     *)
(* result JSON, tears everything down and flattens the elements to text.   *)
(*                                                                         *)
(* Strings the program computes on character by character (element text,   *)
(* the flattened output, the returned messages) are sequences of           *)
(* one-character strings.  Object keys and file names are TLA+ strings.    *)
(***************************************************************************)
EXTENDS Naturals, Sequences, FiniteSets

(***************************************************************************)
(* Bounds of the model.                                                    *)
(***************************************************************************)
\* Longest element text (and table HTML) of the single-element inputs.
MaxClock == 2
TicksPerSecond == 2
Digits == <<"0", "1", "2", "3", "4", "5", "6", "7", "8", "9">>
MaxTextLen == 2
\* Longest element sequence given to the flattener.
MaxElems == 3
\* Objects per list_objects_v2 page (1000 on S3, line 320).
PageSize == 1

(***************************************************************************)
(* Character strings.                                                      *)
(***************************************************************************)
\* The characters element texts are made of: two whitespace characters and
\* one that is not.
Chars == {" ", "\n", "a"}

\* What str.strip() removes (of the characters above).
Whitespace == {" ", "\n"}

RECURSIVE lstrip(_)
lstrip(s) == IF s # <<>> /\ Head(s) \in Whitespace THEN lstrip(Tail(s)) ELSE s

RECURSIVE rstrip(_)
rstrip(s) ==
    IF s # <<>> /\ s[Len(s)] \in Whitespace
    THEN rstrip(SubSeq(s, 1, Len(s) - 1))
    ELSE s

\* str.strip(): leading and trailing whitespace removed, inner whitespace kept.
strip(s) == rstrip(lstrip(s))

\* dict.get(key, default)
Get(d, key, default) == IF key \in DOMAIN d THEN d[key] ELSE default

\* The literals of json_to_text.
H1Open == <<"<", "h", "1", ">", " ">>
H1Close == <<"<", "/", "h", "1", ">", "<", "b", "r", ">">>
H2Open == <<"<", "h", "2", ">", " ">>
H2Close == <<"<", "/", "h", "2", ">", "<", "b", "r", "/", ">">>
POpen == <<"<", "p", ">">>
PClose == <<"<", "/", "p", ">">>
LiOpen == <<"<", "l", "i", ">">>
LiClose == <<"<", "/", "l", "i", ">">>
PageNumberPrefix ==
    <<"P", "a", "g", "e", " ", "n", "u", "m", "b", "e", "r", ":", " ">>
Separator == <<" ">>

(***************************************************************************)
(* json_to_text, lines 341-364: the flattener.                             *)
(***************************************************************************)
\* A loop body that closes a Header as it closes a Title and strips only
\* leading whitespace.
SegmentSloppy(element) ==
    LET text == lstrip(Get(element, "text", <<>>))
        element_type == Get(element, "type", "")
        metadata == Get(element, "metadata", <<>>)
    IN  IF element_type = "Title" THEN H1Open \o text \o H1Close
        ELSE IF element_type = "Header" THEN H2Open \o text \o H1Close
        ELSE IF element_type = "NarrativeText" \/ element_type = "UncategorizedText"
             THEN POpen \o text \o PClose
        ELSE IF element_type = "ListItem" THEN LiOpen \o text \o LiClose
        ELSE IF element_type = "PageNumber" THEN PageNumberPrefix \o text
        ELSE IF element_type = "Table" THEN Get(metadata, "text_as_html", <<>>)
        ELSE text

\* One pass of the loop body: the string appended to doc_texts for element.
Segment(element) ==
    LET text == strip(Get(element, "text", <<>>))
        element_type == Get(element, "type", "")
        metadata == Get(element, "metadata", <<>>)
    IN  IF element_type = "Title" THEN H1Open \o text \o H1Close
        ELSE IF element_type = "Header" THEN H2Open \o text \o H2Close
        ELSE IF element_type = "NarrativeText" \/ element_type = "UncategorizedText"
             THEN POpen \o text \o PClose
        ELSE IF element_type = "ListItem" THEN LiOpen \o text \o LiClose
        ELSE IF element_type = "PageNumber" THEN PageNumberPrefix \o text
        ELSE IF element_type = "Table" THEN Get(metadata, "text_as_html", <<>>)
        ELSE text

\* JSON null, where a string is expected.
None == <<"None">>

\* A loop body that indexes the metadata: metadata["text_as_html"].
RaisesIndexed(element) ==
    \/ Get(element, "text", <<>>) = None
    \/ /\ Get(element, "type", "") = "Table"
       /\ \/ "text_as_html" \notin DOMAIN Get(element, "metadata", <<>>)
          \/ Get(Get(element, "metadata", <<>>), "text_as_html", <<>>) = None

\* The element makes json_to_text raise: None has no strip() (line 344), and
\* join() takes only strings (lines 359-364).
Raises(element) ==
    \/ Get(element, "text", <<>>) = None
    \/ /\ Get(element, "type", "") = "Table"
       /\ Get(Get(element, "metadata", <<>>), "text_as_html", <<>>) = None

\* The list doc_texts after the loop over elements.
RECURSIVE doc_texts(_)
doc_texts(elements) ==
    IF elements = <<>> THEN <<>>
    ELSE <<Segment(Head(elements))>> \o doc_texts(Tail(elements))

\* A join that leaves out the empty strings.
RECURSIVE joinNonEmpty(_, _)
joinNonEmpty(sep, strings) ==
    LET kept == SelectSeq(strings, LAMBDA x : x # <<>>)
    IN  IF kept = <<>> THEN <<>>
        ELSE IF Len(kept) = 1 THEN kept[1]
        ELSE kept[1] \o sep \o joinNonEmpty(sep, Tail(kept))

\* sep.join(strings)
RECURSIVE join(_, _)
join(sep, strings) ==
    IF strings = <<>> THEN <<>>
    ELSE IF Len(strings) = 1 THEN strings[1]
    ELSE strings[1] \o sep \o join(sep, Tail(strings))

json_to_text(elements) == join(Separator, doc_texts(elements))

(***************************************************************************)
(* The inputs of get_processed_doc and the world around it.                *)
(***************************************************************************)
\* A file path: the stem and the extension os.path.splitext separates, and
\* whether os.path.isfile finds a file there.
Paths ==
    { [stem |-> "a", ext |-> ".pdf", isfile |-> TRUE],
      [stem |-> "b", ext |-> ".PDF", isfile |-> TRUE],
      [stem |-> "c", ext |-> ".exe", isfile |-> TRUE],
      [stem |-> "d", ext |-> ".pdf", isfile |-> FALSE],
      [stem |-> "e", ext |-> ".exe", isfile |-> FALSE] }

NoPath == [stem |-> "", ext |-> "", isfile |-> FALSE]

\* str.lower() on the extensions above.
lower(ext) == IF ext = ".PDF" THEN ".pdf" ELSE ext

supported_extensions ==
    { ".abw", ".bmp", ".csv", ".cwk", ".dbf", ".dif", ".doc", ".docm", ".docx",
      ".dot", ".dotm", ".eml", ".epub", ".et", ".eth", ".fods", ".gif", ".heic",
      ".htm", ".html", ".hwp", ".jpeg", ".jpg", ".md", ".mcw", ".mw", ".odt",
      ".org", ".p7s", ".pages", ".pbd", ".pdf", ".png", ".pot", ".potm", ".ppt",
      ".pptm", ".pptx", ".prn", ".rst", ".rtf", ".sdp", ".sgl", ".svg", ".sxg",
      ".tiff", ".txt", ".tsv", ".uof", ".uos1", ".uos2", ".web", ".webp",
      ".wk2", ".xls", ".xlsb", ".xlsm", ".xlsx", ".xlw", ".xml", ".zabw" }

\* os.path.basename(filepath)
basename(filepath) == filepath.stem \o filepath.ext

\* file_key = f"{file_name}.json"
file_key(file_name) == file_name \o ".json"

\* The two return values of the input checks.
FileDoesNotExist ==
    <<"F", "i", "l", "e", " ", "d", "o", "e", "s", " ", "n", "o", "t", " ",
      "e", "x", "i", "s", "t">>
ExtensionNotSupported ==
    <<"F", "i", "l", "e", " ", "e", "x", "t", "e", "n", "s", "i", "o", "n", " ",
      "n", "o", "t", " ", "s", "u", "p", "p", "o", "r", "t", "e", "d", " ",
      "b", "y", " ", "U", "n", "s", "t", "r", "u", "c", "t", "u", "r", "e", "d",
      " ", "P", "l", "a", "t", "f", "o", "r", "m">>

\* The input checks without the extension check.
RejectionWithoutExtensionCheck(filepath) ==
    IF ~filepath.isfile THEN FileDoesNotExist ELSE <<>>

\* The input checks with the extension check first.
RejectionExtensionFirst(filepath) ==
    IF lower(filepath.ext) \notin supported_extensions
    THEN ExtensionNotSupported
    ELSE IF ~filepath.isfile THEN FileDoesNotExist
    ELSE <<>>

\* The input checks of get_processed_doc: the string returned, or <<>> when the
\* path passes both.
Rejection(filepath) ==
    IF ~filepath.isfile THEN FileDoesNotExist
    ELSE IF lower(filepath.ext) \notin supported_extensions
         THEN ExtensionNotSupported
    ELSE <<>>

\* The object keys the two buckets can hold, in the order list_objects_v2
\* lists them (UTF-8 binary order).
KeyOrder == <<"a.pdf", "a.pdf.json", "b.PDF", "b.PDF.json">>
Rank(k) == CHOOSE i \in 1..Len(KeyOrder) : KeyOrder[i] = k

\* The elements the partitioning workflow writes for a staged file: the
\* content of the result JSON under each result key.
Elements(result_key) ==
    IF result_key = "a.pdf.json"
    THEN << [type |-> "Title", text |-> <<"a", " ">>],
            [type |-> "NarrativeText", text |-> <<" ", "a", "a">>] >>
    ELSE << [type |-> "Table", text |-> <<"a">>,
             metadata |-> [text_as_html |-> <<"a", "\n">>]] >>

\* The two bucket names of the environment (lines 41-42).
AWS_S3_SOURCE_BUCKET == "source-bucket"
AWS_S3_DESTINATION_BUCKET == "destination-bucket"

\* The requests: two tool calls, in one server process or in two.
Reqs == {"r1", "r2"}

JobStatuses == {"SCHEDULED", "IN_PROGRESS", "COMPLETED", "FAILED"}
Polling == {"SCHEDULED", "IN_PROGRESS"}

NoResponse == [Contents |-> <<>>, IsTruncated |-> FALSE, NextContinuationToken |-> ""]
NoResult == [kind |-> "none", value |-> <<>>, at |-> ""]

VARIABLES
    pc,                        \* where each request is in get_processed_doc
    filepath,                  \* its argument
    source_connector_id,       \* locals of get_processed_doc ("" until set)
    destination_connector_id,
    workflow_id,
    job_id,
    job,                       \* poll_job_status: status of the job last got
    uploaded,                  \* upload_to_s3 printed "Successfully uploaded"
    local_file_path,           \* what download_s3_file returned ("None": None)
    response,                  \* empty_s3_bucket: the current listing page
    remaining,                 \* empty_s3_bucket: objects of the page left
    deleted_files,             \* empty_s3_bucket: keys deleted so far
    deleted_source_files,
    deleted_processed_files,
    result,                    \* how the request ended: returned string or raise
    calls,                     \* the collaborator operations the request invoked
    s3,                        \* S3: bucket name -> keys of its objects
    sources,                   \* platform: ids of existing source connectors
    destinations,              \* platform: ids of existing destination connectors
    workflows,                 \* platform: [id, source_id, destination_id]
    jobs,                      \* platform: [id, workflow_id, status]
    processed_files,           \* local directory processed_files/: file names
    same_process,              \* both requests arrive at one server process
    environ,                   \* os.environ after load_dotenv(): name -> value
    server,                    \* the program: "starting", "running", "failed"
    now,                       \* datetime.now(), in ticks of the clock
    names,                     \* names given to the created platform objects
    elements,                  \* json_to_text alone: the list json.load gives
    document_text,             \* json_to_text alone: the string it returns
    returned,                  \* json_to_text alone: it has returned
    raised                     \* json_to_text alone: it has raised

vars ==
    << pc, filepath, source_connector_id, destination_connector_id, workflow_id,
       job_id, job, uploaded, local_file_path, response, remaining,
       deleted_files, deleted_source_files, deleted_processed_files, result,
       calls, s3,
       sources, destinations, workflows, jobs, processed_files, same_process,
       environ, server, now, names,
       elements, document_text, returned, raised >>

flattener == << elements, document_text, returned, raised >>
process == << same_process, environ, server, now >>
storage == << uploaded, local_file_path >>
ids == << source_connector_id, destination_connector_id, workflow_id, job_id >>
listing ==
    << response, remaining, deleted_files, deleted_source_files,
       deleted_processed_files >>
platform == << sources, destinations, workflows, jobs >>

\* datetime.now().strftime("%Y-%m-%d-%H-%M-%S"): the clock reading cut to
\* whole seconds.
strftime(t) == "1970-01-01-00-00-0" \o Digits[(t \div TicksPerSecond) + 1]

\* No platform object has been named.
NoNames == [source |-> "", destination |-> "", workflow |-> ""]

\* The list of load_environment_variables without the API key.
required_vars_without_api_key ==
    << "AWS_S3_SOURCE_BUCKET", "AWS_S3_DESTINATION_BUCKET", "AWS_KEY",
       "AWS_SECRET" >>

\* required_vars of load_environment_variables.
required_vars ==
    << "AWS_S3_SOURCE_BUCKET", "AWS_S3_DESTINATION_BUCKET", "AWS_KEY",
       "AWS_SECRET", "UNSTRUCTURED_API_KEY" >>

\* The environments the program can be started in: each required variable
\* absent, set to the empty string, or set to a value.
Environments ==
    UNION { [D -> {"", "value"}] :
              D \in SUBSET {required_vars[i] : i \in 1..Len(required_vars)} }

\* not os.getenv(var)
NotSet(env, var) == var \notin DOMAIN env \/ env[var] = ""

\* No request has arrived; buckets, platform and results directory are empty.
Idle ==
    /\ pc = [r \in Reqs |-> "idle"]
    /\ filepath = [r \in Reqs |-> NoPath]
    /\ source_connector_id = [r \in Reqs |-> ""]
    /\ destination_connector_id = [r \in Reqs |-> ""]
    /\ workflow_id = [r \in Reqs |-> ""]
    /\ job_id = [r \in Reqs |-> ""]
    /\ job = [r \in Reqs |-> ""]
    /\ uploaded = [r \in Reqs |-> FALSE]
    /\ local_file_path = [r \in Reqs |-> ""]
    /\ response = [r \in Reqs |-> NoResponse]
    /\ remaining = [r \in Reqs |-> <<>>]
    /\ deleted_files = [r \in Reqs |-> <<>>]
    /\ deleted_source_files = [r \in Reqs |-> <<>>]
    /\ deleted_processed_files = [r \in Reqs |-> <<>>]
    /\ result = [r \in Reqs |-> NoResult]
    /\ calls = [r \in Reqs |-> {}]
    /\ s3 = [b \in {AWS_S3_SOURCE_BUCKET, AWS_S3_DESTINATION_BUCKET} |-> {}]
    /\ sources = {}
    /\ destinations = {}
    /\ workflows = {}
    /\ jobs = {}
    /\ processed_files = {}
    /\ now = 0
    /\ names = [r \in Reqs |-> NoNames]

Init ==
    /\ Idle
    /\ same_process \in BOOLEAN
    /\ environ \in Environments
    /\ server = "starting"
    /\ elements = <<>>
    /\ document_text = <<>>
    /\ returned = FALSE
    /\ raised = FALSE

(***************************************************************************)
(* How a request moves and ends.                                           *)
(***************************************************************************)
\* get_processed_doc has no await in it and poll_job_status waits with
\* time.sleep: a request holds its server's event loop from its first line to
\* its last, so a request of the same process starts only when no other runs.
Running(r) ==
    same_process => \A q \in Reqs \ {r} : pc[q] \in {"idle", "done"}

Goto(r, label) == pc' = [pc EXCEPT ![r] = label]

\* return value, from the place the request is at.
Return(r, value) ==
    /\ pc' = [pc EXCEPT ![r] = "done"]
    /\ result' = [result EXCEPT ![r] =
                    [kind |-> "return", value |-> value, at |-> pc[r]]]

\* An exception nothing in get_processed_doc catches leaves the tool function.
Raise(r) ==
    /\ pc' = [pc EXCEPT ![r] = "done"]
    /\ result' = [result EXCEPT ![r] =
                    [kind |-> "exception", value |-> <<>>, at |-> pc[r]]]

\* The collaborator operation the request invokes in this step.
Call(r, operation) == calls' = [calls EXCEPT ![r] = @ \cup {operation}]

\* The identifier the platform gives a resource it creates: fresh for each.
NewId(kind, r) == kind \o "-" \o r

(***************************************************************************)
(* get_processed_doc, lines 367-440, one action per collaborator call.     *)
(***************************************************************************)
\* Lines 373-388: the request arrives and its path is checked.
\* Lines 34-50 and 443-446: the loop over required_vars raises ValueError at
\* the first variable that is not set, and mcp.run() is reached only after it.
load_environment_variables ==
    /\ server = "starting"
    /\ server' =
        IF \E i \in 1..Len(required_vars) : NotSet(environ, required_vars[i])
        THEN "failed"
        ELSE "running"
    /\ UNCHANGED << pc, filepath, ids, job, listing, result, calls, s3, platform,
                    processed_files, same_process, environ, now, names,
                    flattener, storage >>

Validate(r) ==
    /\ pc[r] = "idle"
    /\ server = "running"
    /\ Running(r)
    /\ \E path \in Paths :
        /\ filepath' = [filepath EXCEPT ![r] = path]
        /\ IF Rejection(path) # <<>>
           THEN Return(r, Rejection(path))
           ELSE Goto(r, "upload_to_s3") /\ UNCHANGED result
    /\ UNCHANGED << ids, job, listing, calls, s3, platform, processed_files,
                    process, names, flattener, storage >>

\* Lines 53-78 and 390-393: a ClientError is caught and printed, any other
\* failure of upload_file (boto3 raises S3UploadFailedError) is not.
upload_to_s3(r) ==
    /\ pc[r] = "upload_to_s3"
    /\ Running(r)
    /\ Call(r, "upload_file")
    /\ \/ /\ s3' = [s3 EXCEPT ![AWS_S3_SOURCE_BUCKET] =
                        @ \cup {basename(filepath[r])}]
          /\ uploaded' = [uploaded EXCEPT ![r] = TRUE]
          /\ Goto(r, "create_s3_source_connector")
          /\ UNCHANGED result
       \/ /\ Goto(r, "create_s3_source_connector")
          /\ UNCHANGED << s3, uploaded, result >>
       \/ /\ Raise(r)
          /\ UNCHANGED << s3, uploaded >>
    /\ UNCHANGED << filepath, ids, job, local_file_path, listing, platform,
                    processed_files, process, names, flattener >>

\* Lines 130-148 and 395-398.
create_s3_source_connector(r) ==
    /\ pc[r] = "create_s3_source_connector"
    /\ Running(r)
    /\ Call(r, "create_source")
    /\ \/ /\ sources' = sources \cup {NewId("source", r)}
          /\ source_connector_id' =
                [source_connector_id EXCEPT ![r] = NewId("source", r)]
          /\ names' = [names EXCEPT ![r].source = "s3-source-" \o strftime(now)]
          /\ Goto(r, "create_s3_destination_connector")
          /\ UNCHANGED result
       \/ /\ Raise(r)
          /\ UNCHANGED << sources, source_connector_id, names >>
    /\ UNCHANGED << filepath, destination_connector_id, workflow_id, job_id, job,
                    listing, s3, destinations, workflows, jobs, processed_files,
                    process, flattener, storage >>

\* Lines 151-170 and 400-403.
create_s3_destination_connector(r) ==
    /\ pc[r] = "create_s3_destination_connector"
    /\ Running(r)
    /\ Call(r, "create_destination")
    /\ \/ /\ destinations' = destinations \cup {NewId("destination", r)}
          /\ destination_connector_id' =
                [destination_connector_id EXCEPT ![r] = NewId("destination", r)]
          /\ names' = [names EXCEPT
                        ![r].destination = "s3-destination-" \o strftime(now)]
          /\ Goto(r, "create_auto_workflow")
          /\ UNCHANGED result
       \/ /\ Raise(r)
          /\ UNCHANGED << destinations, destination_connector_id, names >>
    /\ UNCHANGED << filepath, source_connector_id, workflow_id, job_id, job,
                    listing, s3, sources, workflows, jobs, processed_files,
                    process, flattener, storage >>

\* Lines 173-221 and 405.
create_auto_workflow(r) ==
    /\ pc[r] = "create_auto_workflow"
    /\ Running(r)
    /\ Call(r, "create_workflow")
    /\ \/ /\ workflows' = workflows \cup
                { [id |-> NewId("workflow", r),
                   source_id |-> source_connector_id[r],
                   destination_id |-> destination_connector_id[r]] }
          /\ workflow_id' = [workflow_id EXCEPT ![r] = NewId("workflow", r)]
          /\ names' = [names EXCEPT
                        ![r].workflow =
                            "s3-to-s3-custom-workflow-" \o strftime(now)]
          /\ Goto(r, "run_workflow")
          /\ UNCHANGED result
       \/ /\ Raise(r)
          /\ UNCHANGED << workflows, workflow_id, names >>
    /\ UNCHANGED << filepath, source_connector_id, destination_connector_id,
                    job_id, job, listing, s3, sources, destinations, jobs,
                    processed_files, process, flattener, storage >>

\* Lines 224-230 and 406: the platform schedules a job of the workflow.
run_workflow(r) ==
    /\ pc[r] = "run_workflow"
    /\ Running(r)
    /\ Call(r, "run_workflow")
    /\ \/ /\ jobs' = jobs \cup
                { [id |-> NewId("job", r), workflow_id |-> workflow_id[r],
                   status |-> "SCHEDULED"] }
          /\ Goto(r, "get_latest_job_id")
          /\ UNCHANGED result
       \/ /\ Raise(r)
          /\ UNCHANGED jobs
    /\ UNCHANGED << filepath, ids, job, listing, s3, sources, destinations,
                    workflows, processed_files, process, names, flattener, storage >>

\* A job list that is not filtered by workflow.
response_list_jobs_unfiltered(workflow) == jobs

\* list_jobs(workflow_id): the jobs of the workflow.
response_list_jobs(workflow) == {j \in jobs : j.workflow_id = workflow}

\* Lines 233-240 and 407: entry 0 of the list; an empty list has none
\* (IndexError).
get_latest_job_id(r) ==
    /\ pc[r] = "get_latest_job_id"
    /\ Running(r)
    /\ Call(r, "list_jobs")
    /\ \/ IF response_list_jobs(workflow_id[r]) = {}
          THEN Raise(r) /\ UNCHANGED job_id
          ELSE /\ job_id' = [job_id EXCEPT ![r] =
                    (CHOOSE j \in response_list_jobs(workflow_id[r]) : TRUE).id]
               /\ Goto(r, "poll_job_status")
               /\ UNCHANGED result
       \/ /\ Raise(r)
          /\ UNCHANGED job_id
    /\ UNCHANGED << filepath, source_connector_id, destination_connector_id,
                    workflow_id, job, listing, s3, platform, processed_files,
                    process, names, flattener, storage >>

\* A poll loop that waits only while the job is scheduled.
AfterPollScheduledOnly(status) ==
    IF status = "SCHEDULED" THEN "sleep" ELSE "download_s3_file"

\* A poll loop that ends only when the job has completed.
AfterPollUntilCompleted(status) ==
    IF status = "COMPLETED" THEN "download_s3_file" ELSE "sleep"

\* The branch of the poll loop on the status got (lines 252-260).
AfterPoll(status) ==
    IF status = "SCHEDULED" THEN "sleep"
    ELSE IF status = "IN_PROGRESS" THEN "sleep"
    ELSE "download_s3_file"

\* Lines 245-260: one get_job call of the poll loop and the branch on it.
poll_job_status(r) ==
    /\ pc[r] = "poll_job_status"
    /\ Running(r)
    /\ Call(r, "get_job")
    /\ \/ \E j \in jobs :
            /\ j.id = job_id[r]
            /\ job' = [job EXCEPT ![r] = j.status]
            /\ Goto(r, AfterPoll(j.status))
            /\ UNCHANGED result
       \/ /\ Raise(r)
          /\ UNCHANGED job
    /\ UNCHANGED << filepath, ids, listing, s3, platform, processed_files,
                    process, names, flattener, storage >>

\* Lines 254 and 257: time.sleep(10), then the loop polls again.
sleep(r) ==
    /\ pc[r] = "sleep"
    /\ Running(r)
    /\ Goto(r, "poll_job_status")
    /\ UNCHANGED << filepath, ids, job, listing, result, calls, s3, platform,
                    processed_files, process, names, flattener, storage >>

\* Lines 81-123 and 415-421: every failure is caught inside and the None it
\* returns is not looked at.
download_s3_file(r) ==
    /\ pc[r] = "download_s3_file"
    /\ Running(r)
    /\ Call(r, "download_file")
    /\ \/ /\ file_key(basename(filepath[r])) \in s3[AWS_S3_DESTINATION_BUCKET]
          /\ processed_files' =
                processed_files \cup {file_key(basename(filepath[r]))}
          /\ local_file_path' =
                [local_file_path EXCEPT ![r] = file_key(basename(filepath[r]))]
       \/ /\ local_file_path' = [local_file_path EXCEPT ![r] = "None"]
          /\ UNCHANGED processed_files
    /\ Goto(r, "delete_workflow")
    /\ UNCHANGED << filepath, ids, job, uploaded, listing, result, s3, platform,
                    process, names, flattener >>

\* Lines 265-270 and 424.
delete_workflow(r) ==
    /\ pc[r] = "delete_workflow"
    /\ Running(r)
    /\ Call(r, "delete_workflow")
    /\ \/ /\ workflows' = {w \in workflows : w.id # workflow_id[r]}
          /\ Goto(r, "delete_source_connector")
          /\ UNCHANGED result
       \/ /\ Raise(r)
          /\ UNCHANGED workflows
    /\ UNCHANGED << filepath, ids, job, listing, s3, sources, destinations, jobs,
                    processed_files, process, names, flattener, storage >>

\* Lines 273-279 and 425.
delete_source_connector(r) ==
    /\ pc[r] = "delete_source_connector"
    /\ Running(r)
    /\ Call(r, "delete_source")
    /\ \/ /\ sources' = sources \ {source_connector_id[r]}
          /\ Goto(r, "delete_destination_connector")
          /\ UNCHANGED result
       \/ /\ Raise(r)
          /\ UNCHANGED sources
    /\ UNCHANGED << filepath, ids, job, listing, s3, destinations, workflows,
                    jobs, processed_files, process, names, flattener, storage >>

\* Lines 281-287 and 426.
delete_destination_connector(r) ==
    /\ pc[r] = "delete_destination_connector"
    /\ Running(r)
    /\ Call(r, "delete_destination")
    /\ \/ /\ destinations' = destinations \ {destination_connector_id[r]}
          /\ Goto(r, "empty_source_list")
          /\ UNCHANGED result
       \/ /\ Raise(r)
          /\ UNCHANGED destinations
    /\ UNCHANGED << filepath, ids, job, listing, s3, sources, workflows, jobs,
                    processed_files, process, names, flattener, storage >>

(***************************************************************************)
(* empty_s3_bucket, lines 290-334, called for the source bucket (428) and  *)
(* then for the destination bucket (432).                                  *)
(***************************************************************************)
ListLabel(bucket_name) ==
    IF bucket_name = AWS_S3_SOURCE_BUCKET
    THEN "empty_source_list" ELSE "empty_destination_list"

DeleteLabel(bucket_name) ==
    IF bucket_name = AWS_S3_SOURCE_BUCKET
    THEN "empty_source_delete" ELSE "empty_destination_delete"

\* A listing that never says it is truncated.
list_objects_v2_one_page(bucket_name, token) ==
    LET rest == SelectSeq(KeyOrder,
                    LAMBDA k : /\ k \in s3[bucket_name]
                               /\ (token = "" \/ Rank(k) > Rank(token)))
        n == IF Len(rest) < PageSize THEN Len(rest) ELSE PageSize
    IN  [Contents |-> SubSeq(rest, 1, n),
         IsTruncated |-> FALSE,
         NextContinuationToken |-> ""]

\* S3's list_objects_v2: at most PageSize keys in key order, after the
\* continuation token if one is given.
list_objects_v2(bucket_name, token) ==
    LET rest == SelectSeq(KeyOrder,
                    LAMBDA k : /\ k \in s3[bucket_name]
                               /\ (token = "" \/ Rank(k) > Rank(token)))
        n == IF Len(rest) < PageSize THEN Len(rest) ELSE PageSize
    IN  [Contents |-> SubSeq(rest, 1, n),
         IsTruncated |-> Len(rest) > PageSize,
         NextContinuationToken |-> IF Len(rest) > PageSize THEN rest[n] ELSE ""]

\* A caller that flattens right after the source bucket has been emptied.
EmptyReturnSkipsDestination(r, bucket_name, files) ==
    /\ deleted_source_files' = [deleted_source_files EXCEPT ![r] = files]
    /\ Goto(r, "json_to_text")
    /\ UNCHANGED deleted_processed_files
    /\ response' = [response EXCEPT ![r] = NoResponse]
    /\ remaining' = [remaining EXCEPT ![r] = <<>>]
    /\ deleted_files' = [deleted_files EXCEPT ![r] = <<>>]

\* return deleted_files, and the assignment at the call site.
EmptyReturn(r, bucket_name, files) ==
    /\ IF bucket_name = AWS_S3_SOURCE_BUCKET
       THEN /\ deleted_source_files' = [deleted_source_files EXCEPT ![r] = files]
            /\ Goto(r, "empty_destination_list")
            /\ UNCHANGED deleted_processed_files
       ELSE /\ deleted_processed_files' =
                    [deleted_processed_files EXCEPT ![r] = files]
            /\ Goto(r, "json_to_text")
            /\ UNCHANGED deleted_source_files
    /\ response' = [response EXCEPT ![r] = NoResponse]
    /\ remaining' = [remaining EXCEPT ![r] = <<>>]
    /\ deleted_files' = [deleted_files EXCEPT ![r] = <<>>]

\* Lines 307-311 (the first page) and 321-327 (the pages after it).
list_objects(r, bucket_name) ==
    /\ pc[r] = ListLabel(bucket_name)
    /\ Running(r)
    /\ Call(r, "list_objects_v2")
    /\ \/ LET page == list_objects_v2(bucket_name,
                                       response[r].NextContinuationToken)
          IN  /\ IF page.Contents = <<>>
                 THEN EmptyReturn(r, bucket_name, deleted_files[r])
                 ELSE /\ response' = [response EXCEPT ![r] = page]
                      /\ remaining' = [remaining EXCEPT ![r] = page.Contents]
                      /\ Goto(r, DeleteLabel(bucket_name))
                      /\ UNCHANGED << deleted_files, deleted_source_files,
                                      deleted_processed_files >>
              /\ UNCHANGED result
       \/ /\ Raise(r)
          /\ UNCHANGED listing
    /\ UNCHANGED << filepath, ids, job, s3, platform, processed_files,
                    process, names, flattener, storage >>

\* A loop body that deletes the object and does not record its key.
DeletedNotRecorded(files, key) == files

\* The key appended to deleted_files after a delete_object call.
Deleted(files, key) == Append(files, key)

\* Lines 314-318 and 328-332: one pass of the loop over the page, and what
\* follows the last pass (lines 321 and 334).
delete_object(r, bucket_name) ==
    /\ pc[r] = DeleteLabel(bucket_name)
    /\ Running(r)
    /\ remaining[r] # <<>>
    /\ Call(r, "delete_object")
    /\ \/ LET key == Head(remaining[r])
              files == Deleted(deleted_files[r], key)
          IN  /\ s3' = [s3 EXCEPT ![bucket_name] = @ \ {key}]
              /\ IF Tail(remaining[r]) # <<>>
                 THEN /\ remaining' = [remaining EXCEPT ![r] = Tail(@)]
                      /\ deleted_files' = [deleted_files EXCEPT ![r] = files]
                      /\ UNCHANGED << pc, response, deleted_source_files,
                                      deleted_processed_files >>
                 ELSE IF response[r].IsTruncated
                 THEN /\ remaining' = [remaining EXCEPT ![r] = <<>>]
                      /\ deleted_files' = [deleted_files EXCEPT ![r] = files]
                      /\ Goto(r, ListLabel(bucket_name))
                      /\ UNCHANGED << response, deleted_source_files,
                                      deleted_processed_files >>
                 ELSE EmptyReturn(r, bucket_name, files)
              /\ UNCHANGED result
       \/ /\ Raise(r)
          /\ UNCHANGED << s3, listing >>
    /\ UNCHANGED << filepath, ids, job, platform, processed_files,
                    process, names, flattener, storage >>

\* Lines 436-440 and 338-339: the local results file is opened and flattened;
\* open() raises when there is no such file.
return_document_text(r) ==
    /\ pc[r] = "json_to_text"
    /\ Running(r)
    /\ IF /\ file_key(basename(filepath[r])) \in processed_files
          /\ \A e \in {Elements(file_key(basename(filepath[r])))[i] :
                    i \in 1..Len(Elements(file_key(basename(filepath[r]))))} :
                ~Raises(e)
       THEN Return(r, json_to_text(Elements(file_key(basename(filepath[r])))))
       ELSE Raise(r)
    /\ UNCHANGED << filepath, ids, job, listing, calls, s3, platform,
                    processed_files, process, names, flattener, storage >>

(***************************************************************************)
(* The platform runs a job: it is scheduled, then in progress, then it     *)
(* ends, and a job that succeeds has written one result JSON to the        *)
(* destination bucket for each file of the source bucket.                  *)
(***************************************************************************)
SetStatus(j, status) ==
    jobs' = (jobs \ {j}) \cup {[j EXCEPT !.status = status]}

JobProgress ==
    /\ \E j \in jobs :
        \/ /\ j.status = "SCHEDULED"
           /\ SetStatus(j, "IN_PROGRESS")
           /\ UNCHANGED s3
        \/ /\ j.status = "IN_PROGRESS"
           /\ SetStatus(j, "COMPLETED")
           /\ s3' = [s3 EXCEPT ![AWS_S3_DESTINATION_BUCKET] =
                        @ \cup {file_key(k) : k \in s3[AWS_S3_SOURCE_BUCKET]}]
        \/ /\ j.status = "IN_PROGRESS"
           /\ SetStatus(j, "FAILED")
           /\ UNCHANGED s3
    /\ UNCHANGED << pc, filepath, ids, job, listing, result, calls, sources,
                    destinations, workflows, processed_files, process, names,
                    flattener, storage >>

Step(r) ==
    \/ Validate(r)
    \/ upload_to_s3(r)
    \/ create_s3_source_connector(r)
    \/ create_s3_destination_connector(r)
    \/ create_auto_workflow(r)
    \/ run_workflow(r)
    \/ get_latest_job_id(r)
    \/ poll_job_status(r)
    \/ sleep(r)
    \/ download_s3_file(r)
    \/ delete_workflow(r)
    \/ delete_source_connector(r)
    \/ delete_destination_connector(r)
    \/ list_objects(r, AWS_S3_SOURCE_BUCKET)
    \/ delete_object(r, AWS_S3_SOURCE_BUCKET)
    \/ list_objects(r, AWS_S3_DESTINATION_BUCKET)
    \/ delete_object(r, AWS_S3_DESTINATION_BUCKET)
    \/ return_document_text(r)

Next ==
    \/ load_environment_variables
    \/ \E r \in Reqs : Step(r)
    \/ JobProgress

Spec == Init /\ [][Next]_vars

\* empty_s3_bucket alone: one request is about to empty the source bucket and
\* then the destination bucket, each holding any of the keys.
EmptyInit ==
    /\ pc = [r \in Reqs |-> IF r = "r1" THEN "empty_source_list" ELSE "idle"]
    /\ filepath = [r \in Reqs |-> IF r = "r1" THEN [stem |-> "a", ext |-> ".pdf", isfile |-> TRUE]
                                    ELSE NoPath]
    /\ source_connector_id = [r \in Reqs |-> ""]
    /\ destination_connector_id = [r \in Reqs |-> ""]
    /\ workflow_id = [r \in Reqs |-> ""]
    /\ job_id = [r \in Reqs |-> ""]
    /\ job = [r \in Reqs |-> ""]
    /\ uploaded = [r \in Reqs |-> FALSE]
    /\ local_file_path = [r \in Reqs |-> ""]
    /\ response = [r \in Reqs |-> NoResponse]
    /\ remaining = [r \in Reqs |-> <<>>]
    /\ deleted_files = [r \in Reqs |-> <<>>]
    /\ deleted_source_files = [r \in Reqs |-> <<>>]
    /\ deleted_processed_files = [r \in Reqs |-> <<>>]
    /\ result = [r \in Reqs |-> NoResult]
    /\ calls = [r \in Reqs |-> {}]
    /\ s3 \in [{AWS_S3_SOURCE_BUCKET, AWS_S3_DESTINATION_BUCKET} ->
                SUBSET {KeyOrder[i] : i \in 1..Len(KeyOrder)}]
    /\ sources = {}
    /\ destinations = {}
    /\ workflows = {}
    /\ jobs = {}
    /\ processed_files = {}
    /\ now = 0
    /\ names = [r \in Reqs |-> NoNames]
    /\ same_process = TRUE
    /\ environ = [i \in 1..0 |-> ""]
    /\ server = "running"
    /\ elements = <<>>
    /\ document_text = <<>>
    /\ returned = FALSE
    /\ raised = FALSE

\* Lines 290-334, called at lines 428 and 432.
empty_s3_bucket(r) ==
    \/ list_objects(r, AWS_S3_SOURCE_BUCKET)
    \/ delete_object(r, AWS_S3_SOURCE_BUCKET)
    \/ list_objects(r, AWS_S3_DESTINATION_BUCKET)
    \/ delete_object(r, AWS_S3_DESTINATION_BUCKET)

SpecEmpty == EmptyInit /\ [][empty_s3_bucket("r1")]_vars

\* The clock of datetime.now() advances.
Tick ==
    /\ now < MaxClock
    /\ now' = now + 1
    /\ UNCHANGED << pc, filepath, ids, job, listing, result, calls, s3, platform,
                    processed_files, same_process, environ, server, names,
                    flattener, storage >>

\* The requests with the clock running.
SpecClock == Init /\ [][Next \/ Tick]_vars

(***************************************************************************)
(* json_to_text on its own: the element lists it is given and its call.    *)
(***************************************************************************)
\* All strings over Chars of length n, and of length at most n.
RECURSIVE StringsOfLen(_)
StringsOfLen(n) ==
    IF n = 0 THEN {<<>>}
    ELSE {Append(t, c) : t \in StringsOfLen(n - 1), c \in Chars}

RECURSIVE StringsUpTo(_)
StringsUpTo(n) ==
    IF n = 0 THEN {<<>>} ELSE StringsOfLen(n) \cup StringsUpTo(n - 1)

\* The type tags: the seven json_to_text knows and one it does not.
TypeTags ==
    { "Title", "Header", "NarrativeText", "UncategorizedText", "ListItem",
      "PageNumber", "Table", "Footer" }

\* A JSON object with the keys given: each argument is <<>> (key absent) or
\* <<value>>.
Element(type, text, metadata) ==
    [k \in {x \in {"type"} : type # <<>>} \cup {x \in {"text"} : text # <<>>}
           \cup {x \in {"metadata"} : metadata # <<>>} |->
        IF k = "type" THEN type[1] ELSE IF k = "text" THEN text[1]
        ELSE metadata[1]]

\* Every element with a text of at most MaxTextLen characters or none, any
\* type tag or none, and no metadata, metadata without the HTML rendering, or
\* metadata with one.
AllElements ==
    { Element(type, text, metadata) :
        type \in {<<>>} \cup {<<t>> : t \in TypeTags},
        text \in {<<>>} \cup {<<t>> : t \in StringsUpTo(MaxTextLen)},
        metadata \in {<<>>, << [filename |-> <<"a">>] >>}
            \cup {<< [text_as_html |-> t] >> : t \in StringsUpTo(MaxTextLen)} }

\* The elements the longer lists are made of: one of each type tag and one of
\* none, an element with nothing in it, and two tables.
ListElements ==
    { Element(type, << <<" ", "a", "\n">> >>, <<>>) :
        type \in {<<>>} \cup {<<t>> : t \in TypeTags} }
    \cup { Element(<<"Footer">>, <<>>, <<>>),
           Element(<<"Table">>, << <<"a">> >>, << [text_as_html |-> <<"a", " ">>] >>),
           Element(<<"Table">>, << <<"a">> >>, << [filename |-> <<"a">>] >>) }

RECURSIVE ListsOfLen(_)
ListsOfLen(n) ==
    IF n = 0 THEN {<<>>}
    ELSE {Append(l, e) : l \in ListsOfLen(n - 1), e \in ListElements}

RECURSIVE ListsUpTo(_)
ListsUpTo(n) ==
    IF n = 0 THEN {<<>>} ELSE ListsOfLen(n) \cup ListsUpTo(n - 1)

\* Elements outside the data model: a null text, a null HTML rendering.
NullElements ==
    { Element(<<"Title">>, <<None>>, <<>>),
      Element(<<>>, <<None>>, <<>>),
      Element(<<"Table">>, << <<"a">> >>, << [text_as_html |-> None] >>) }

FlatInit ==
    /\ Idle
    /\ same_process = FALSE
    /\ environ = [i \in {} |-> ""]
    /\ server = "starting"
    /\ elements \in {<<e>> : e \in AllElements} \cup ListsUpTo(MaxElems)
            \cup {<<e>> : e \in NullElements}
            \cup {<<e, n>> : e \in ListElements, n \in NullElements}
    /\ document_text = <<>>
    /\ returned = FALSE
    /\ raised = FALSE

\* Lines 341-364: the call of json_to_text on the loaded list.
Flatten ==
    /\ ~returned
    /\ ~raised
    /\ IF \E i \in 1..Len(elements) : Raises(elements[i])
       THEN raised' = TRUE /\ UNCHANGED << document_text, returned >>
       ELSE /\ document_text' = json_to_text(elements)
            /\ returned' = TRUE
            /\ UNCHANGED raised
    /\ UNCHANGED << pc, filepath, ids, job, listing, result, calls, s3, platform,
                    processed_files, process, names, elements, storage >>

SpecFlat == FlatInit /\ [][Flatten]_vars

(***************************************************************************)
(* Properties of a request (specification Spec).                           *)
(***************************************************************************)
\* What the request created on the platform and has not seen deleted.
Leaked(r) ==
    \/ source_connector_id[r] \in sources
    \/ destination_connector_id[r] \in destinations
    \/ \E w \in workflows : w.id = workflow_id[r]

\* C1: when a request has ended, however it ended, no workflow, source
\* connector or destination connector it created exists any more.
C1_NoResourceOutlivesRequest ==
    \A r \in Reqs : pc[r] = "done" => ~Leaked(r)

\* C2: a request never ends with an exception leaving get_processed_doc: it
\* ends by returning a string.
C2_AlwaysReturnsString ==
    \A r \in Reqs : pc[r] = "done" => result[r].kind = "return"

\* The inputs the spec says are rejected.
RejectedInput(path) ==
    ~path.isfile \/ lower(path.ext) \notin supported_extensions

\* C3: a request for a path that is no file, or whose extension is not in the
\* allow-list, ends at once with one of the two rejection strings, has
\* invoked no collaborator operation, and its step changes neither bucket,
\* nothing on the platform and nothing in the local results directory.
C3_RejectionCallsNothing ==
    /\ [](\A r \in Reqs :
            pc[r] # "idle" /\ RejectedInput(filepath[r]) =>
                /\ pc[r] = "done"
                /\ result[r].kind = "return"
                /\ result[r].value \in {FileDoesNotExist, ExtensionNotSupported}
                /\ calls[r] = {}
                /\ ~uploaded[r] /\ local_file_path[r] = ""
                /\ source_connector_id[r] = "" /\ destination_connector_id[r] = ""
                /\ workflow_id[r] = "" /\ job_id[r] = "")
    /\ [][\A r \in Reqs :
            pc[r] = "idle" /\ pc'[r] # "idle" /\ RejectedInput(filepath'[r]) =>
                UNCHANGED << s3, platform, processed_files, calls >>]_vars

\* A request for c.exe, which exists, has been rejected for its extension
\* while the other request is past its upload.
C3_Witness ==
    \E r \in Reqs, q \in Reqs :
        /\ pc[r] = "done" /\ filepath[r].isfile /\ filepath[r].ext = ".exe"
        /\ result[r].value = ExtensionNotSupported
        /\ uploaded[q] /\ pc[q] = "poll_job_status"

\* The request has run its teardown to the end: the three deletions and the
\* emptying of both buckets.
TornDown(r) ==
    /\ {"delete_workflow", "delete_source", "delete_destination",
        "list_objects_v2"} \subseteq calls[r]
    /\ result[r].at = "json_to_text"
    /\ ~Leaked(r)

\* C4: a request whose download of the result JSON failed has, when it ends,
\* deleted its workflow and both connectors and emptied both buckets.
C4_TeardownAfterFailedDownload ==
    \A r \in Reqs :
        pc[r] = "done" /\ local_file_path[r] = "None" => TornDown(r)

\* C5: a request that retrieved its result JSON returns the flattened text of
\* it whether or not teardown calls fail, and has attempted all of teardown.
C5_TeardownFailureKeepsResult ==
    \A r \in Reqs :
        pc[r] = "done" /\ local_file_path[r] \notin {"", "None"} =>
            /\ result[r].kind = "return"
            /\ result[r].value = json_to_text(Elements(local_file_path[r]))
            /\ {"delete_workflow", "delete_source", "delete_destination",
                "list_objects_v2"} \subseteq calls[r]

\* The places of a request between its upload and its download.
BeforeRetrieval ==
    { "create_s3_source_connector", "create_s3_destination_connector",
      "create_auto_workflow", "run_workflow", "get_latest_job_id",
      "poll_job_status", "sleep", "download_s3_file" }

\* The keys a request has deleted in its empty_s3_bucket calls.
DeletedBy(q) ==
    LET all == deleted_files[q] \o deleted_source_files[q]
                   \o deleted_processed_files[q]
    IN  {all[i] : i \in 1..Len(all)}

\* C6: requests sharing the bucket pair race: whenever a request that uploaded
\* its file and has not yet retrieved its result finds the file gone from the
\* source bucket, it is the teardown (empty_s3_bucket) of the other request
\* that deleted it; and that happens (C6_Witness).
C6_TeardownDeletesOthersFiles ==
    \A r \in Reqs :
        /\ pc[r] \in BeforeRetrieval
        /\ uploaded[r]
        /\ basename(filepath[r]) \notin s3[AWS_S3_SOURCE_BUCKET]
        => \E q \in Reqs \ {r} : basename(filepath[r]) \in DeletedBy(q)

\* A request is about to download: its job completed, but the teardown of the
\* other request has deleted both its uploaded file and its result JSON.
C6_Witness ==
    \E r \in Reqs, q \in Reqs :
        /\ q # r
        /\ pc[r] = "download_s3_file" /\ uploaded[r] /\ job[r] = "COMPLETED"
        /\ basename(filepath[r]) # basename(filepath[q])
        /\ basename(filepath[r]) \notin s3[AWS_S3_SOURCE_BUCKET]
        /\ basename(filepath[r]) \in DeletedBy(q)
        /\ file_key(basename(filepath[r])) \notin s3[AWS_S3_DESTINATION_BUCKET]
        /\ file_key(basename(filepath[r])) \in DeletedBy(q)

\* The status the platform holds for a job.
JobStatus(id) == (CHOOSE j \in jobs : j.id = id).status

\* The places of a request in retrieval and teardown.
RetrieveTeardown ==
    { "download_s3_file", "delete_workflow", "delete_source_connector",
      "delete_destination_connector", "empty_source_list",
      "empty_source_delete", "empty_destination_list",
      "empty_destination_delete", "json_to_text" }

\* The request is in, or ended in, retrieval or teardown.
PastAwait(r) ==
    \/ pc[r] \in RetrieveTeardown
    \/ pc[r] = "done" /\ result[r].at \in RetrieveTeardown

\* C7: the poll loop sleeps and polls again exactly when the status it got is
\* SCHEDULED or IN_PROGRESS and returns at the first other status; the job it
\* returns is the one of its last poll and is never SCHEDULED or IN_PROGRESS;
\* retrieval and teardown begin only from the return of the poll loop.
C7_PollUntilTerminal ==
    /\ [](\A r \in Reqs :
            /\ pc[r] = "sleep" => job[r] \in Polling
            /\ PastAwait(r) =>
                /\ job[r] \in JobStatuses \ Polling
                /\ job[r] = JobStatus(job_id[r]))
    /\ [][\A r \in Reqs :
            /\ pc[r] = "poll_job_status" /\ pc'[r] \notin {"poll_job_status", "done"}
                => /\ job'[r] = JobStatus(job_id[r])
                   /\ job'[r] \in Polling <=> pc'[r] = "sleep"
                   /\ job'[r] \notin Polling <=> pc'[r] = "download_s3_file"
            /\ pc[r] = "sleep" /\ pc'[r] # "sleep" => pc'[r] = "poll_job_status"
            /\ pc'[r] \in RetrieveTeardown /\ pc[r] \notin RetrieveTeardown
                => pc[r] = "poll_job_status"]_vars

\* A request has left the poll loop with a job that failed, after the
\* platform had it scheduled and in progress.
C7_Witness ==
    \E r \in Reqs :
        pc[r] = "download_s3_file" /\ job[r] = "FAILED" /\ "get_job" \in calls[r]

(***************************************************************************)
(* The program runs: a request that can take its next step takes it.  The  *)
(* platform owes the job no progress.                                      *)
(***************************************************************************)
FairSpec == Spec /\ \A r \in Reqs : WF_vars(Step(r))

Awaiting(r) == pc[r] \in {"poll_job_status", "sleep"}

\* C8: nothing bounds the poll loop.  A request in it whose job has reached a
\* status other than SCHEDULED/IN_PROGRESS leaves it and ends; while the job
\* is SCHEDULED or IN_PROGRESS every step of the request that raises nothing
\* keeps it in the loop, so a request is in retrieval or teardown only when
\* its job has reached such a status.
C8_PollLoopUnbounded ==
    /\ \A r \in Reqs :
        (Awaiting(r) /\ JobStatus(job_id[r]) \notin Polling) ~> (pc[r] = "done")
    /\ [](\A r \in Reqs : PastAwait(r) => JobStatus(job_id[r]) \notin Polling)
    /\ [][\A r \in Reqs :
            Awaiting(r) /\ JobStatus(job_id[r]) \in Polling /\ pc'[r] # "done"
                => Awaiting(r)']_vars

\* A request sleeps between two polls of a job that is still scheduled, having
\* polled before.
C8_Witness ==
    \E r \in Reqs :
        /\ pc[r] = "sleep" /\ job[r] = "SCHEDULED"
        /\ JobStatus(job_id[r]) = "SCHEDULED"

(***************************************************************************)
(* Properties of the flattener (specification SpecFlat).                   *)
(***************************************************************************)
\* The text trimmed: the part of s between its first and its last character
\* that is not whitespace, and the empty string if it has none.
Trimmed(s) ==
    LET solid == {i \in 1..Len(s) : s[i] \notin Whitespace}
    IN  IF solid = {} THEN <<>>
        ELSE SubSeq(s, CHOOSE i \in solid : \A j \in solid : i <= j,
                       CHOOSE i \in solid : \A j \in solid : i >= j)

\* The table of section 4.1: what goes before and after the trimmed text.
Wrapping(type) ==
    CASE type = "Title" ->
            << <<"<", "h", "1", ">", " ">>,
               <<"<", "/", "h", "1", ">", "<", "b", "r", ">">> >>
      [] type = "Header" ->
            << <<"<", "h", "2", ">", " ">>,
               <<"<", "/", "h", "2", ">", "<", "b", "r", "/", ">">> >>
      [] type \in {"NarrativeText", "UncategorizedText"} ->
            << <<"<", "p", ">">>, <<"<", "/", "p", ">">> >>
      [] type = "ListItem" ->
            << <<"<", "l", "i", ">">>, <<"<", "/", "l", "i", ">">> >>
      [] type = "PageNumber" ->
            << <<"P", "a", "g", "e", " ", "n", "u", "m", "b", "e", "r", ":", " ">>,
               <<>> >>
      [] OTHER -> << <<>>, <<>> >>

\* The segment the table gives an element.
TableSegment(e) ==
    LET type == IF "type" \in DOMAIN e THEN e.type ELSE ""
        text == IF "text" \in DOMAIN e THEN Trimmed(e.text) ELSE <<>>
    IN  IF type = "Table"
        THEN IF "metadata" \in DOMAIN e /\ "text_as_html" \in DOMAIN e.metadata
             THEN e.metadata.text_as_html
             ELSE <<>>
        ELSE Wrapping(type)[1] \o text \o Wrapping(type)[2]

\* C9: every element contributes the segment the table of section 4.1 gives
\* its type, built on its trimmed text (a Table: its metadata's HTML, as it
\* is); the output for a single element is that segment.
C9_SegmentPerType ==
    returned =>
        /\ \A i \in 1..Len(elements) :
                doc_texts(elements)[i] = TableSegment(elements[i])
        /\ Len(elements) = 1 => document_text = TableSegment(elements[1])

\* A Header whose text has whitespace on both sides has been flattened.
C9_Witness ==
    /\ returned
    /\ elements = << [type |-> "Header", text |-> <<" ", "a", "\n">>] >>
    /\ document_text =
        <<"<", "h", "2", ">", " ", "a", "<", "/", "h", "2", ">", "<", "b", "r",
          "/", ">">>

\* Where segment i starts in the output, less one: the lengths of the
\* segments before it and one separator for each.
RECURSIVE Offset(_, _)
Offset(segments, i) ==
    IF i = 1 THEN 0
    ELSE Offset(segments, i - 1) + Len(segments[i - 1]) + 1

\* text is the segments in order with exactly one space between neighbours.
JoinedBySpaces(text, segments) ==
    LET n == Len(segments)
    IN  /\ Len(text) = IF n = 0 THEN 0
                       ELSE Offset(segments, n) + Len(segments[n])
        /\ \A i \in 1..n :
            /\ SubSeq(text, Offset(segments, i) + 1,
                      Offset(segments, i) + Len(segments[i])) = segments[i]
            /\ i < n => text[Offset(segments, i) + Len(segments[i]) + 1] = " "

\* The permutations of 1..n.
Orderings(n) ==
    {p \in [1..n -> 1..n] : \A i, j \in 1..n : p[i] = p[j] => i = j}

\* C10: the output is one segment per element, in input order, joined by
\* exactly one space; flattening a permutation of the input gives the same
\* segments permuted the same way; the empty list gives the empty string.
C10_OrderPreservingJoin ==
    returned =>
        LET segments == [i \in 1..Len(elements) |-> TableSegment(elements[i])]
        IN  /\ JoinedBySpaces(document_text, segments)
            /\ elements = <<>> => document_text = <<>>
            /\ \A p \in Orderings(Len(elements)) :
                JoinedBySpaces(
                    json_to_text([i \in 1..Len(elements) |-> elements[p[i]]]),
                    [i \in 1..Len(elements) |-> segments[p[i]]])

\* Three elements have been flattened, the middle one to an empty segment and
\* the outer two to different segments.
C10_Witness ==
    /\ returned
    /\ Len(elements) = 3
    /\ TableSegment(elements[2]) = <<>>
    /\ TableSegment(elements[1]) # <<>>
    /\ TableSegment(elements[3]) # <<>>
    /\ TableSegment(elements[1]) # TableSegment(elements[3])
    /\ Len(document_text) =
        Len(TableSegment(elements[1])) + Len(TableSegment(elements[3])) + 2

\* The element list is one of the data model: every text and every HTML
\* rendering that is there is a string.
InDataModel(list) ==
    \A i \in 1..Len(list) :
        /\ "text" \in DOMAIN list[i] => list[i].text # None
        /\ "metadata" \in DOMAIN list[i]
            /\ "text_as_html" \in DOMAIN list[i].metadata
            => list[i].metadata.text_as_html # None

\* The element is a Table with no HTML rendering in its metadata.
TableWithoutHtml(e) ==
    /\ "type" \in DOMAIN e /\ e.type = "Table"
    /\ "metadata" \in DOMAIN e => "text_as_html" \notin DOMAIN e.metadata

\* C11: on every element list of the data model (any type tag or none, text
\* empty or absent, metadata absent or without the HTML rendering)
\* json_to_text can be called, does not raise, and returns a string of
\* characters; a Table without HTML rendering contributes the empty segment.
C11_FlattenerTotal ==
    InDataModel(elements) =>
        /\ ~raised
        /\ ~returned => ENABLED Flatten
        /\ returned =>
            /\ \A i \in 1..Len(document_text) : Len(document_text[i]) = 1
            /\ \A i \in 1..Len(elements) :
                TableWithoutHtml(elements[i]) => doc_texts(elements)[i] = <<>>
            /\ Len(elements) = 1 /\ TableWithoutHtml(elements[1])
                => document_text = <<>>

\* A Table whose metadata has no HTML rendering has been flattened to the
\* empty string.
C11_Witness ==
    /\ returned
    /\ elements = << [type |-> "Table", text |-> <<"a">>,
                      metadata |-> [filename |-> <<"a">>]] >>
    /\ document_text = <<>>

\* C12: the existence check comes first and answers 'File does not exist'
\* whatever the extension; only an existing file is checked against the
\* allow-list, its extension lower-cased first, and answers the
\* extension-not-supported string; '.PDF' is accepted and '.exe' is not, and
\* an accepted path goes on to the upload.
C12_ValidatorOrder ==
    \A r \in Reqs : pc[r] # "idle" =>
        /\ ~filepath[r].isfile =>
            result[r] = [kind |-> "return", value |-> FileDoesNotExist,
                         at |-> "idle"]
        /\ filepath[r].isfile /\ filepath[r].ext = ".exe" =>
            result[r] = [kind |-> "return", value |-> ExtensionNotSupported,
                         at |-> "idle"]
        /\ filepath[r].isfile /\ filepath[r].ext \in {".pdf", ".PDF"} =>
            /\ result[r].at # "idle"
            /\ pc[r] = "upload_to_s3" \/ "upload_file" \in calls[r]

\* One request for a missing file with an unsupported extension was answered
\* 'File does not exist', the other, for an existing .PDF, has uploaded.
C12_Witness ==
    \E r \in Reqs, q \in Reqs :
        /\ pc[r] = "done" /\ ~filepath[r].isfile /\ filepath[r].ext = ".exe"
        /\ result[r].value = FileDoesNotExist
        /\ filepath[q].ext = ".PDF" /\ uploaded[q]

\* The request's upload to the source bucket failed, or its download of the
\* result JSON did.
UploadFailed(r) == "upload_file" \in calls[r] /\ ~uploaded[r]
DownloadFailed(r) == local_file_path[r] = "None"

\* C13: a request whose upload or whose download failed creates no connector
\* after the failed upload, and ends by returning a string that is an error
\* description, not by raising and not with a flattened document.
C13_StorageFailureReported ==
    \A r \in Reqs :
        /\ UploadFailed(r) => "create_source" \notin calls[r]
        /\ (UploadFailed(r) \/ DownloadFailed(r)) /\ pc[r] = "done" =>
            /\ result[r].kind = "return"
            /\ \A k \in {"a.pdf.json", "b.PDF.json"} :
                result[r].value # json_to_text(Elements(k))

\* The five required settings, all set to a non-empty value.
AllFiveSet ==
    \A var \in {"AWS_S3_SOURCE_BUCKET", "AWS_S3_DESTINATION_BUCKET", "AWS_KEY",
                "AWS_SECRET", "UNSTRUCTURED_API_KEY"} :
        var \in DOMAIN environ /\ environ[var] # ""

\* C14: started with one of the five required settings absent or empty, the
\* program fails at startup and never serves; the server runs, and a request
\* is handled, only in a state where all five are set.
C14_FailFastAtStartup ==
    /\ server = "running" => AllFiveSet
    /\ \A r \in Reqs : pc[r] # "idle" => server = "running" /\ AllFiveSet
    /\ ~AllFiveSet /\ server # "starting" =>
        server = "failed" /\ \A r \in Reqs : pc[r] = "idle"
    /\ (\E r \in Reqs : ENABLED Validate(r)) => AllFiveSet

\* Startup has failed with only the API key missing: four settings have a
\* value and UNSTRUCTURED_API_KEY is the empty string.
C14_Witness ==
    /\ server = "failed"
    /\ DOMAIN environ = {"AWS_S3_SOURCE_BUCKET", "AWS_S3_DESTINATION_BUCKET",
                         "AWS_KEY", "AWS_SECRET", "UNSTRUCTURED_API_KEY"}
    /\ \A var \in DOMAIN environ :
        environ[var] = IF var = "UNSTRUCTURED_API_KEY" THEN "" ELSE "value"

\* C15: while one request waits between two polls, the host can run another
\* request: a request that has arrived at the running server and not started
\* can take its first step.
C15_WaitYieldsToHost ==
    \A r \in Reqs, q \in Reqs :
        r # q /\ pc[r] = "sleep" /\ pc[q] = "idle" /\ server = "running" =>
            ENABLED Validate(q)

\* C16: any two distinct requests, also two that provision in the same clock
\* second, give different names to their source connectors, to their
\* destination connectors and to their workflows.
C16_UniqueNames ==
    \A r \in Reqs, q \in Reqs : r # q =>
        \A kind \in {"source", "destination", "workflow"} :
            names[r][kind] # "" /\ names[q][kind] # "" =>
                names[r][kind] # names[q][kind]

\* The phases of an accepted request in the order of section 3, and the
\* collaborator operation of each phase that has one call.
Phases ==
    << "idle", "upload_to_s3", "create_s3_source_connector",
       "create_s3_destination_connector", "create_auto_workflow",
       "run_workflow", "get_latest_job_id", "poll_job_status",
       "download_s3_file", "delete_workflow", "delete_source_connector",
       "delete_destination_connector", "empty_source_list",
       "empty_destination_list", "json_to_text", "done" >>
Operations ==
    << "upload_file", "create_source", "create_destination", "create_workflow",
       "run_workflow", "list_jobs", "get_job", "download_file",
       "delete_workflow", "delete_source", "delete_destination",
       "list_objects_v2" >>
LoopPhases == {"poll_job_status", "empty_source_list", "empty_destination_list"}

\* The phase a position of the request belongs to, and its place in the order.
PhaseOf(label) ==
    IF label = "sleep" THEN "poll_job_status"
    ELSE IF label = "empty_source_delete" THEN "empty_source_list"
    ELSE IF label = "empty_destination_delete" THEN "empty_destination_list"
    ELSE label
Place(label) == CHOOSE i \in 1..Len(Phases) : Phases[i] = PhaseOf(label)

\* The request has begun to delete something.
Deleting(r) ==
    calls[r] \cap {"delete_workflow", "delete_source", "delete_destination",
                   "list_objects_v2", "delete_object"} # {}

\* C17: a request moves through the phases in the fixed order, one phase at a
\* time or to its end, and repeats a step only inside the poll loop and inside
\* the emptying of a bucket, so every other operation is called at most once
\* and only after all operations before it; its workflow is bound to exactly
\* its own two connectors; nothing is deleted before a poll saw a terminal
\* status; the workflow is deleted before the connectors; the download comes
\* before the emptying of the destination bucket.
C17_FixedOrder ==
    /\ [](\A r \in Reqs :
            /\ \A i \in 1..Len(Operations) :
                Operations[i] \in calls[r] =>
                    /\ Place(pc[r]) > i
                    /\ \A j \in 1..i : Operations[j] \in calls[r]
            /\ "delete_object" \in calls[r] => "list_objects_v2" \in calls[r]
            /\ \A w \in workflows :
                w.id = workflow_id[r] /\ w.id # "" =>
                    /\ w.source_id = source_connector_id[r]
                    /\ w.destination_id = destination_connector_id[r]
                    /\ w.source_id = NewId("source", r)
                    /\ w.destination_id = NewId("destination", r)
            /\ Deleting(r) => job[r] # "" /\ job[r] \notin Polling
            /\ calls[r] \cap {"delete_source", "delete_destination"} # {}
                => workflow_id[r] \notin {w.id : w \in workflows}
            /\ PhaseOf(pc[r]) = "empty_destination_list"
                \/ deleted_processed_files[r] # <<>>
                => "download_file" \in calls[r] /\ local_file_path[r] # "")
    /\ [][\A r \in Reqs :
            /\ pc'[r] # pc[r] =>
                \/ Place(pc'[r]) = Place(pc[r]) + 1
                \/ pc'[r] = "done"
                \/ PhaseOf(pc'[r]) = PhaseOf(pc[r]) /\ PhaseOf(pc[r]) \in LoopPhases
            /\ calls'[r] # calls[r] /\ PhaseOf(pc[r]) \notin LoopPhases =>
                /\ pc'[r] # pc[r]
                /\ calls'[r] = calls[r] \cup {Operations[Place(pc[r]) - 1]}
            /\ calls'[r] # calls[r] /\ PhaseOf(pc[r]) \in LoopPhases =>
                calls'[r] \ calls[r] \subseteq
                    {"get_job", "list_objects_v2", "delete_object"}]_vars

\* A request has gone through every phase, slept in the poll loop's phase,
\* deleted objects, and returned from the flattening.
C17_Witness ==
    \E r \in Reqs :
        /\ pc[r] = "done" /\ result[r].kind = "return"
        /\ result[r].at = "json_to_text"
        /\ {Operations[i] : i \in 1..Len(Operations)} \subseteq calls[r]
        /\ "delete_object" \in calls[r]
        /\ deleted_source_files[r] # <<>> /\ deleted_processed_files[r] # <<>>

\* The keys in a list, and: the list is in listing order without repeats.
Keys(files) == {files[i] : i \in 1..Len(files)}
InListingOrder(files) ==
    \A i \in 1..Len(files), j \in 1..Len(files) :
        i < j => Rank(files[i]) < Rank(files[j])

\* What a call of empty_s3_bucket on the bucket has deleted so far, together
\* with what the bucket still holds.
Accounted(r, bucket_name) == Keys(deleted_files[r]) \cup s3[bucket_name]

\* C18: when nobody else writes to the bucket and no call fails,
\* empty_s3_bucket deletes the objects of all pages, each key once, and
\* returns the deleted keys in listing order; on an empty bucket it deletes
\* nothing and returns the empty list.  As a step property: every step of
\* the call keeps 'deleted so far plus still in the bucket' equal to the
\* content at the call, and the returning step leaves the bucket empty and
\* hands over exactly the deleted keys.
C18_EmptiesWholeBucket ==
    /\ [](/\ InListingOrder(deleted_files["r1"])
          /\ InListingOrder(deleted_source_files["r1"])
          /\ InListingOrder(deleted_processed_files["r1"])
          /\ \A b \in {AWS_S3_SOURCE_BUCKET, AWS_S3_DESTINATION_BUCKET} :
                PhaseOf(pc["r1"]) = ListLabel(b) =>
                    Keys(deleted_files["r1"]) \cap s3[b] = {}
          /\ PhaseOf(pc["r1"]) \in {"empty_destination_list", "json_to_text"}
                => s3[AWS_S3_SOURCE_BUCKET] = {}
          /\ pc["r1"] = "json_to_text" => s3[AWS_S3_DESTINATION_BUCKET] = {})
    /\ [][\A b \in {AWS_S3_SOURCE_BUCKET, AWS_S3_DESTINATION_BUCKET} :
            PhaseOf(pc["r1"]) = ListLabel(b) /\ pc'["r1"] # "done" =>
                IF PhaseOf(pc'["r1"]) = ListLabel(b)
                THEN Accounted("r1", b)' = Accounted("r1", b)
                ELSE /\ s3'[b] = {}
                     /\ deleted_files'["r1"] = <<>>
                     /\ LET files == IF b = AWS_S3_SOURCE_BUCKET
                                     THEN deleted_source_files'["r1"]
                                     ELSE deleted_processed_files'["r1"]
                        IN  /\ Keys(files) = Accounted("r1", b)
                            /\ Len(files) = Cardinality(Accounted("r1", b))
                            /\ pc["r1"] = ListLabel(b) /\ s3[b] = {}
                                /\ deleted_files["r1"] = <<>>
                                => files = <<>> /\ s3' = s3]_vars

\* Both calls have returned: the source bucket held all four keys and all
\* four were deleted page by page, the destination bucket was empty and the
\* call on it returned the empty list.
C18_Witness ==
    /\ pc["r1"] = "json_to_text"
    /\ deleted_source_files["r1"] = KeyOrder
    /\ deleted_processed_files["r1"] = <<>>
    /\ "delete_object" \in calls["r1"]

\* C19: the job a request awaits is the job of the workflow this request
\* created and ran.  When get_latest_job_id is called the job list of the
\* request's workflow holds that job and no other, so entry 0 is the most
\* recently created job; the id kept is the id of a job of this workflow,
\* never of another one; and every status the poll loop reads is the status
\* of the job with exactly that id.
C19_AwaitsOwnJob ==
    /\ [](\A r \in Reqs :
            /\ pc[r] = "get_latest_job_id" =>
                /\ workflow_id[r] = NewId("workflow", r)
                /\ {j.id : j \in response_list_jobs(workflow_id[r])}
                        = {NewId("job", r)}
            /\ job_id[r] # "" =>
                /\ job_id[r] = NewId("job", r)
                /\ \A j \in jobs :
                    j.id = job_id[r] => j.workflow_id = workflow_id[r]
                /\ \A q \in Reqs \ {r} :
                    \A j \in jobs :
                        j.workflow_id = workflow_id[q] => j.id # job_id[r])
    /\ [][\A r \in Reqs :
            job'[r] # job[r] =>
                /\ pc[r] = "poll_job_status"
                /\ \E j \in jobs :
                    /\ j.id = job_id[r]
                    /\ j.workflow_id = workflow_id[r]
                    /\ j.status = job'[r]]_vars

\* Both requests have run a workflow, and one of them has taken its own job
\* from the list and polled it while the other's job also exists.
C19_Witness ==
    \E r \in Reqs, q \in Reqs :
        /\ r # q
        /\ job_id[r] = NewId("job", r) /\ job[r] = "IN_PROGRESS"
        /\ \E j \in jobs : j.workflow_id = workflow_id[q] /\ workflow_id[q] # ""
        /\ pc[q] = "get_latest_job_id"

\* C20: a request returns a flattened document only if its own download
\* retrieved the result JSON: a request whose download failed does not end
\* by returning the flattening of the local results file.
C20_ReturnsOwnResult ==
    \A r \in Reqs :
        pc[r] = "done" /\ result[r].kind = "return"
            /\ result[r].at = "json_to_text"
            => local_file_path[r] = file_key(basename(filepath[r]))

====
